---------------------------- MODULE Spec2Model ----------------------------
(* State-machine model of translate.py: the tagged-sentence model           *)
(* (Sentence.add_word, get_bracketed_sentences, get_entity, ...), the       *)
(* bracket helpers (check_brackets, get_bracket_indexes, remove_brackets,   *)
(* get_bracketed_entity) and the reconstruction loop that turns the         *)
(* translated, bracketed sentences back into two CONLL files.               *)
(*                                                                          *)
(* A Python str is a sequence of one-character strings; indexes and slices  *)
(* keep Python's 0-based, half-open meaning (PySlice).                      *)
EXTENDS Integers, Sequences, FiniteSets, TLC

(***************************************************************************)
(* Bounds of the model                                                     *)
(***************************************************************************)
\* longest sentence built by add_word in SpecIdentity
MaxWords == 3
\* longest translated string enumerated over Alphabet
MaxTransLen == 4
\* most sentences of a corpus of SpecAlign
MaxSentences == 4

(***************************************************************************)
(* Program constants                                                       *)
(***************************************************************************)
START_BRACKET == "\""
END_BRACKET == "\""
TEMPLATE_TOKEN == <<"<", "#", "T", "E", "M", "P", "L", "A", "T", "E", "#", ">">>
TARGET_LANGUAGE == "fr"
max_amt == 4

(***************************************************************************)
(* Python str operations used by the program                               *)
(***************************************************************************)
\* s[lo:hi] for 0 <= lo, hi (clamped as Python clamps)
PySlice(s, lo, hi) ==
    LET h == IF hi > Len(s) THEN Len(s) ELSE hi
    IN  IF lo >= h THEN <<>> ELSE SubSeq(s, lo + 1, h)

\* s[lo:]
PySliceFrom(s, lo) == PySlice(s, lo, Len(s))

\* s.count(c) for a one-character c
StrCount(s, c) == Cardinality({i \in 1..Len(s) : s[i] = c})

\* s.index(c) for a one-character c the string holds: 0-based first position
StrIndex(s, c) == (CHOOSE i \in 1..Len(s) : s[i] = c /\ \A j \in 1..(i - 1) : s[j] # c) - 1

\* whether sub occurs in s at 0-based position p
OccursAt(s, sub, p) ==
    /\ p >= 0
    /\ p + Len(sub) <= Len(s)
    /\ \A j \in 1..Len(sub) : s[p + j] = sub[j]

\* sub in s
StrContains(s, sub) == \E p \in 0..Len(s) : OccursAt(s, sub, p)

\* s.find(sub): 0-based position of the leftmost occurrence, -1 when there is none
StrFind(s, sub) ==
    IF StrContains(s, sub)
    THEN CHOOSE p \in 0..Len(s) : OccursAt(s, sub, p) /\ \A q \in 0..(p - 1) : ~OccursAt(s, sub, q)
    ELSE -1

\* str.isspace() on the characters of the model's alphabet
IsSpace(c) == c = " "

\* s.strip()
RECURSIVE LStrip(_)
LStrip(s) == IF s # <<>> /\ IsSpace(Head(s)) THEN LStrip(Tail(s)) ELSE s

RECURSIVE RStrip(_)
RStrip(s) == IF s # <<>> /\ IsSpace(s[Len(s)]) THEN RStrip(SubSeq(s, 1, Len(s) - 1)) ELSE s

StrStrip(s) == RStrip(LStrip(s))

\* s.split(): the maximal runs of non-whitespace characters, in order
RECURSIVE SplitFrom(_, _, _)
SplitFrom(s, cur, acc) ==
    IF s = <<>> THEN (IF cur = <<>> THEN acc ELSE Append(acc, cur))
    ELSE IF IsSpace(Head(s))
         THEN SplitFrom(Tail(s), <<>>, IF cur = <<>> THEN acc ELSE Append(acc, cur))
         ELSE SplitFrom(Tail(s), Append(cur, Head(s)), acc)

StrSplit(s) == SplitFrom(s, <<>>, <<>>)

\* " ".join(tokens)
RECURSIVE JoinSpace(_)
JoinSpace(tokens) ==
    IF tokens = <<>> THEN <<>>
    ELSE IF Len(tokens) = 1 THEN tokens[1]
    ELSE tokens[1] \o <<" ">> \o JoinSpace(Tail(tokens))

\* a faulty variant of StrReplaceFirst: replaces the rightmost occurrence
StrReplaceLast(s, old, new) ==
    IF ~StrContains(s, old) THEN s
    ELSE LET p == CHOOSE q \in 0..Len(s) :
                      OccursAt(s, old, q) /\ \A r \in (q + 1)..Len(s) : ~OccursAt(s, old, r)
         IN  PySlice(s, 0, p) \o new \o PySliceFrom(s, p + Len(old))

\* s.replace(old, new, 1): the leftmost occurrence replaced (an empty old
\* matches at position 0), s itself when old does not occur
StrReplaceFirst(s, old, new) ==
    LET p == StrFind(s, old)
    IN  IF p < 0 THEN s
        ELSE PySlice(s, 0, p) \o new \o PySliceFrom(s, p + Len(old))

\* tokens.count(x) for a list
ListCount(tokens, x) == Cardinality({i \in 1..Len(tokens) : tokens[i] = x})

(***************************************************************************)
(* Tags, words, sentences                                                  *)
(***************************************************************************)
Tag(tag_type, tag_category) == [tag_type |-> tag_type, tag_category |-> tag_category]

Word(token, tag) == [token |-> token, tag |-> tag]

\* Tag.tag_format
tag_format(tag) ==
    IF tag.tag_type # "O" THEN <<tag.tag_type, "-", tag.tag_category>> ELSE <<tag.tag_type>>

\* Sentence(): no id, no words, no entity indexes
NewSentence == [id_value |-> "None", domain |-> "None", words |-> <<>>, entity_indexes |-> <<>>]

\* a faulty variant of add_word: records the length after the append, not the position
add_word_off_by_one(sentence, word) ==
    [sentence EXCEPT
        !.words = Append(@, word),
        !.entity_indexes = IF word.tag.tag_type = "B" THEN Append(@, Len(sentence.words) + 1) ELSE @]

\* Sentence.add_word; entity_indexes holds Python's 0-based positions
add_word(sentence, word) ==
    [sentence EXCEPT
        !.words = Append(@, word),
        !.entity_indexes = IF word.tag.tag_type = "B" THEN Append(@, (Len(sentence.words) + 1) - 1) ELSE @]

(***************************************************************************)
(* Bracket helpers                                                         *)
(***************************************************************************)
check_brackets(s) ==
    IF START_BRACKET = END_BRACKET
    THEN StrCount(s, START_BRACKET) = 2
    ELSE StrCount(s, START_BRACKET) = 1 /\ StrCount(s, END_BRACKET) = 1

\* get_bracket_indexes, for a string that passes check_brackets (the caller
\* models the assert)
get_bracket_indexes(s) ==
    LET start_bracket_index == StrIndex(s, START_BRACKET)
        end_bracket_index ==
            start_bracket_index + 1 + StrIndex(PySliceFrom(s, start_bracket_index + 1), END_BRACKET)
    IN  <<start_bracket_index, end_bracket_index>>

\* a faulty variant of remove_brackets: drops the character after the end marker too
remove_brackets_greedy(s) ==
    LET ix == get_bracket_indexes(s)
    IN  PySlice(s, 0, ix[1]) \o PySlice(s, ix[1] + 1, ix[2]) \o PySliceFrom(s, ix[2] + 2)

\* remove_brackets, for a string that passes check_brackets
remove_brackets(s) ==
    LET ix == get_bracket_indexes(s)
    IN  PySlice(s, 0, ix[1]) \o PySlice(s, ix[1] + 1, ix[2]) \o PySliceFrom(s, ix[2] + 1)

\* get_bracketed_entity, for a string that passes check_brackets
get_bracketed_entity(s) ==
    LET ix == get_bracket_indexes(s)
    IN  PySlice(s, ix[1] + 1, ix[2])

(***************************************************************************)
(* Sentence.get_bracketed_sentences                                        *)
(***************************************************************************)
\* the loop over the words of lines 196-211: i is the 0-based position
RECURSIVE BracketLoop(_, _, _, _, _)
BracketLoop(words, entity_index, i, bracketed_sentence, bracketing) ==
    IF i >= Len(words)
    THEN [bracketed_sentence |-> bracketed_sentence, bracketing |-> bracketing]
    ELSE LET word == words[i + 1]
             s1 == bracketed_sentence \o <<" ">>
         IN  IF i = entity_index
             THEN BracketLoop(words, entity_index, i + 1,
                              s1 \o <<START_BRACKET>> \o word.token, TRUE)
             ELSE IF bracketing
             THEN IF word.tag.tag_type # "I"
                  THEN BracketLoop(words, entity_index, i + 1,
                                   PySlice(s1, 0, Len(s1) - 1) \o <<END_BRACKET, " ">> \o word.token,
                                   FALSE)
                  ELSE BracketLoop(words, entity_index, i + 1, s1 \o word.token, TRUE)
             ELSE BracketLoop(words, entity_index, i + 1, s1 \o word.token, FALSE)

\* a faulty variant of BracketedSentence: forgets to close an entity at sentence end
BracketedSentenceNoClose(words, entity_index) ==
    StrStrip(BracketLoop(words, entity_index, 0, <<>>, FALSE).bracketed_sentence)

\* one pass of the outer loop, lines 194-215: the string for one entity
BracketedSentence(words, entity_index) ==
    LET r == BracketLoop(words, entity_index, 0, <<>>, FALSE)
        closed == IF r.bracketing
                  THEN r.bracketed_sentence \o <<END_BRACKET>>
                  ELSE r.bracketed_sentence
    IN  StrStrip(closed)

\* get_bracketed_sentences: the list, or ValueError when a string fails check_brackets
get_bracketed_sentences(sentence) ==
    LET N == Len(sentence.entity_indexes)
        all == [k \in 1..N |-> BracketedSentence(sentence.words, sentence.entity_indexes[k])]
    IN  IF \E k \in 1..N : ~check_brackets(all[k])
        THEN [raised |-> "ValueError", value |-> <<>>]
        ELSE [raised |-> "None", value |-> all]

(***************************************************************************)
(* Sentence.get_entity, get_entities, get_entity_category, ...             *)
(***************************************************************************)
\* the loop of lines 226-233, from 0-based position i on
RECURSIVE EntityLoop(_, _, _, _)
EntityLoop(words, entity_index, i, entity) ==
    IF i >= Len(words) THEN entity
    ELSE LET word == words[i + 1]
         IN  IF i = entity_index
             THEN EntityLoop(words, entity_index, i + 1, entity \o word.token)
             ELSE IF i > entity_index
             THEN IF word.tag.tag_type # "I"
                  THEN entity
                  ELSE EntityLoop(words, entity_index, i + 1, entity \o <<" ">> \o word.token)
             ELSE EntityLoop(words, entity_index, i + 1, entity)

\* a faulty variant of get_entity: takes the Begin word alone
get_entity_first_token(sentence, entity_indexes_index) ==
    sentence.words[sentence.entity_indexes[entity_indexes_index + 1] + 1].token

\* get_entity(k) for a 0-based k
get_entity(sentence, entity_indexes_index) ==
    EntityLoop(sentence.words, sentence.entity_indexes[entity_indexes_index + 1], 0, <<>>)

get_entities(sentence) ==
    [k \in 1..Len(sentence.entity_indexes) |-> get_entity(sentence, k - 1)]

get_entity_category(sentence, entity_indexes_index) ==
    sentence.words[sentence.entity_indexes[entity_indexes_index + 1] + 1].tag.tag_category

get_entity_categories(sentence) ==
    [k \in 1..Len(sentence.entity_indexes) |-> get_entity_category(sentence, k - 1)]

(***************************************************************************)
(* The reconstruction loop, lines 374-467                                  *)
(***************************************************************************)
\* one write() to an output file
IdLine(id_value, domain) == [kind |-> "id", example_id |-> id_value, domain |-> domain]

WordLine(word) == [kind |-> "word", token |-> word.token, tag_format |-> tag_format(word.tag)]

BlankLines == [kind |-> "blank"]

\* faulty variant: the slice ends at number_of_entities instead of
\* translations_index + number_of_entities
TranslationsSliceNoOffset(res, index, number_of_entities) ==
    PySlice(res, index, number_of_entities)

\* line 380: results[translations_index:translations_index + number_of_entities]
TranslationsSlice(res, index, number_of_entities) ==
    PySlice(res, index, index + number_of_entities)

\* line 390: remove_brackets(translations[0]) raises IndexError on an empty
\* list and AssertionError (the assert of remove_brackets) on a string that
\* fails check_brackets
MainUnbracketedFault(trs) ==
    IF Len(trs) = 0 THEN "IndexError"
    ELSE IF ~check_brackets(trs[1]) THEN "AssertionError"
    ELSE "None"

\* a faulty variant of ConsistencyLoop: checks the brackets and never compares
ConsistencyLoopNoCompare(trs, main) ==
    IF \E k \in 1..Len(trs) : ~check_brackets(trs[k])
    THEN "BracketsNotFoundWarning"
    ELSE "None"

\* lines 391-402: the warning of the first translation that fails, "None"
\* when the loop ends with skip = False
ConsistencyLoop(trs, main) ==
    LET Bad(k) == \/ ~check_brackets(trs[k])
                  \/ remove_brackets(trs[k]) # main
    IN  IF \A k \in 1..Len(trs) : ~Bad(k) THEN "None"
        ELSE LET k == CHOOSE j \in 1..Len(trs) : Bad(j) /\ \A i \in 1..(j - 1) : ~Bad(i)
             IN  IF ~check_brackets(trs[k])
                 THEN "BracketsNotFoundWarning"
                 ELSE "TranslationMismatchWarning"

\* lines 425-429: the entity texts replaced one after the other, each at its
\* leftmost occurrence in the template built so far
RECURSIVE BuildTemplate(_, _)
BuildTemplate(tmpl, entity_tokens) ==
    IF entity_tokens = <<>> THEN tmpl
    ELSE BuildTemplate(StrReplaceFirst(tmpl, Head(entity_tokens), TEMPLATE_TOKEN),
                       Tail(entity_tokens))

\* lines 455-457: the words of one entity for one file
EntityWords(tokens, category) ==
    [i \in 1..Len(tokens) |->
        WordLine(Word(tokens[i], Tag(IF i - 1 = 0 THEN "B" ELSE "I", category)))]

\* lines 445-461 for one of the two files: entity_tokens are the original
\* entity texts for orig_file and the translated ones for trans_file
RECURSIVE WalkTemplate(_, _, _, _)
WalkTemplate(split, entity_indexes_index, categories, entity_tokens) ==
    IF split = <<>> THEN <<>>
    ELSE IF Head(split) = TEMPLATE_TOKEN
    THEN LET k == entity_indexes_index + 1
         IN  EntityWords(StrSplit(entity_tokens[k + 1]), categories[k + 1])
                 \o WalkTemplate(Tail(split), k, categories, entity_tokens)
    ELSE <<WordLine(Word(Head(split), Tag("O", "")))>>
             \o WalkTemplate(Tail(split), entity_indexes_index, categories, entity_tokens)

\* a faulty variant of SentenceWrites: the id line goes out before the placeholder count is checked
SentenceWritesEarlyId(file, outcome, id_line, word_lines, blank) ==
    IF outcome = "emitted"
    THEN file \o <<id_line>> \o word_lines \o (IF blank THEN <<BlankLines>> ELSE <<>>)
    ELSE IF outcome = "TemplateTokenMismatchWarning" THEN file \o <<id_line>>
    ELSE file

\* what one iteration writes to a file: nothing on continue (lines 405, 436),
\* else the id line, the words and, unless the loop breaks, the blank lines
SentenceWrites(file, outcome, id_line, word_lines, blank) ==
    IF outcome = "emitted"
    THEN file \o <<id_line>> \o word_lines \o (IF blank THEN <<BlankLines>> ELSE <<>>)
    ELSE file

(***************************************************************************)
(* State: the globals of the script                                        *)
(***************************************************************************)
VARIABLES
    pc,                          \* where the script stands, or the exception that stopped it
    sentence,                    \* the sentence being parsed, then the loop's sentence
    sentences,                   \* the parsed corpus
    sentences_to_translate,      \* line 351
    results,                     \* the translatedText of each entry of results.json
    translations_index,
    db_amt,
    sentence_index,              \* the position of the loop's next sentence
    translations,
    main_unbracketed_translation,
    skip,
    entity_categories,
    original_entity_tokens,
    translated_entity_tokens,
    template,
    split_template,
    orig_file,                   \* the writes to the two output files, in order
    trans_file,
    warned                       \* the warnings issued, each with its sentence's position

vars == <<pc, sentence, sentences, sentences_to_translate, results, translations_index,
          db_amt, sentence_index, translations, main_unbracketed_translation, skip,
          entity_categories, original_entity_tokens, translated_entity_tokens,
          template, split_template, orig_file, trans_file, warned>>

loop_vars == <<translations_index, db_amt, sentence_index, translations,
               main_unbracketed_translation, skip, entity_categories,
               original_entity_tokens, translated_entity_tokens, template,
               split_template, orig_file, trans_file, warned>>

LoopVarsInit ==
    /\ translations_index = 0
    /\ db_amt = 0
    /\ sentence_index = 0
    /\ translations = <<>>
    /\ main_unbracketed_translation = <<>>
    /\ skip = FALSE
    /\ entity_categories = <<>>
    /\ original_entity_tokens = <<>>
    /\ translated_entity_tokens = <<>>
    /\ template = <<>>
    /\ split_template = <<>>
    /\ orig_file = <<>>
    /\ trans_file = <<>>
    /\ warned = <<>>

(***************************************************************************)
(* Inputs                                                                  *)
(***************************************************************************)
\* the tokens and tags of the word lines fed to the parser in SpecSentence;
\* one token is the bracket marker itself
ParseTokens == {<<"a">>, <<"b", "c">>, <<START_BRACKET>>}

ParseTags == {Tag("B", "OtherPER"), Tag("B", "TechCorp"), Tag("I", "OtherPER"),
              Tag("I", "TechCorp"), Tag("O", "")}

ParseWords == {Word(t, g) : t \in ParseTokens, g \in ParseTags}

\* the characters of the enumerated translated strings
Alphabet == {"a", " ", START_BRACKET}

AllStrings(n) == UNION {[1..k -> Alphabet] : k \in 0..n}

\* longer translated strings, each a case of the reconstruction
ExtraStrings ==
    { <<"\"", "a", " ", "a", "\"">>,                    \* "a a"
      <<"a", " ", "\"", "a", "\"">>,                    \* a "a"
      <<"\"", "a", "\"", " ", "a">>,                    \* "a" a
      <<"\"", "b", "\"", " ", "a", " ", "c">>,          \* "b" a c
      <<"b", " ", "a", " ", "\"", "c", "\"">>,          \* b a "c"
      <<"\"", "a", "\"", " ", "#">>,                    \* "a" #
      <<"a", " ", "\"", "#", "\"">>,                    \* a "#"
      <<"\"">> \o TEMPLATE_TOKEN \o <<"\"">> }          \* "<#TEMPLATE#>"

TransStrings == AllStrings(MaxTransLen) \cup ExtraStrings

\* a sentence as the parser builds it: add_word for each word line
RECURSIVE AddWords(_, _)
AddWords(s, ws) == IF ws = <<>> THEN s ELSE AddWords(add_word(s, Head(ws)), Tail(ws))

ParsedSentence(id_value, ws) ==
    AddWords([NewSentence EXCEPT !.id_value = id_value, !.domain = "en"], ws)

\* the word lines of the corpora of Spec: no entity, one entity of two
\* tokens, two entities, one entity of one token
WordsNoEntity == <<Word(<<"x">>, Tag("O", ""))>>

WordsOneEntity == <<Word(<<"p">>, Tag("B", "OtherPER")), Word(<<"q">>, Tag("I", "OtherPER")),
                    Word(<<"x">>, Tag("O", ""))>>

WordsTwoEntities == <<Word(<<"p">>, Tag("B", "OtherPER")), Word(<<"x">>, Tag("O", "")),
                      Word(<<"r">>, Tag("B", "TechCorp"))>>

WordsShortEntity == <<Word(<<"r">>, Tag("B", "TechCorp"))>>

CorpusWordLines ==
    { <<WordsNoEntity>>, <<WordsOneEntity>>, <<WordsTwoEntities>>,
      <<WordsNoEntity, WordsOneEntity>>, <<WordsOneEntity, WordsNoEntity>>,
      <<WordsOneEntity, WordsShortEntity>> }

SentenceIds == <<"id0", "id1", "id2", "id3", "id4">>

Corpus(lines) == [i \in 1..Len(lines) |-> ParsedSentence(SentenceIds[i], lines[i])]

RECURSIVE TotalEntities(_)
TotalEntities(ss) ==
    IF ss = <<>> THEN 0 ELSE Len(Head(ss).entity_indexes) + TotalEntities(Tail(ss))

(***************************************************************************)
(* Spec: the reconstruction loop over a parsed corpus and its results      *)
(***************************************************************************)
Init ==
    /\ pc = "loop"
    /\ sentence = NewSentence
    /\ sentences \in {Corpus(lines) : lines \in CorpusWordLines}
    /\ sentences_to_translate =
           [i \in 1..Len(sentences) |-> get_bracketed_sentences(sentences[i]).value]
    /\ results \in [1..TotalEntities(sentences) -> TransStrings]
    /\ LoopVarsInit

\* one iteration of the loop of line 377
LoopIteration ==
    /\ pc = "loop"
    /\ sentence_index < Len(sentences)
    /\ LET s == sentences[sentence_index + 1]
           number_of_entities == Len(s.entity_indexes)
           trs == TranslationsSlice(results, translations_index, number_of_entities)
           fault == MainUnbracketedFault(trs)
       IN
       /\ sentence' = s
       /\ translations' = trs
       /\ UNCHANGED <<sentences, sentences_to_translate, results>>
       /\ IF Len(trs) # number_of_entities
          THEN \* the assert of line 382
               /\ pc' = "AssertionError"
               /\ UNCHANGED <<translations_index, db_amt, sentence_index,
                              main_unbracketed_translation, skip, entity_categories,
                              original_entity_tokens, translated_entity_tokens, template,
                              split_template, orig_file, trans_file, warned>>
          ELSE
          /\ translations_index' = translations_index + number_of_entities
          /\ IF fault # "None"
             THEN \* line 390 raises
                  /\ pc' = fault
                  /\ UNCHANGED <<db_amt, sentence_index, main_unbracketed_translation, skip,
                                 entity_categories, original_entity_tokens,
                                 translated_entity_tokens, template, split_template,
                                 orig_file, trans_file, warned>>
             ELSE
             LET main == remove_brackets(trs[1])
                 warning == ConsistencyLoop(trs, main)
             IN
             /\ main_unbracketed_translation' = main
             /\ skip' = (warning # "None")
             /\ IF warning # "None"
                THEN \* continue, line 405
                     /\ warned' = Append(warned, [category |-> warning, sentence_index |-> sentence_index])
                     /\ sentence_index' = sentence_index + 1
                     /\ orig_file' = SentenceWrites(orig_file, warning, <<>>, <<>>, FALSE)
                     /\ trans_file' = SentenceWrites(trans_file, warning, <<>>, <<>>, FALSE)
                     /\ pc' = "loop"
                     /\ UNCHANGED <<db_amt, entity_categories, original_entity_tokens,
                                    translated_entity_tokens, template, split_template>>
                ELSE
                LET cats == get_entity_categories(s)
                    orig_tokens == get_entities(s)
                    trans_tokens == [k \in 1..Len(trs) |-> get_bracketed_entity(trs[k])]
                IN
                /\ entity_categories' = cats
                /\ original_entity_tokens' = orig_tokens
                /\ translated_entity_tokens' = trans_tokens
                /\ IF StrContains(main, TEMPLATE_TOKEN)
                   THEN \* the assert of line 422
                        /\ template' = main
                        /\ pc' = "AssertionError"
                        /\ UNCHANGED <<db_amt, sentence_index, split_template, orig_file,
                                       trans_file, warned>>
                   ELSE
                   LET tmpl == BuildTemplate(main, trans_tokens)
                       split == StrSplit(tmpl)
                       outcome == IF ListCount(split, TEMPLATE_TOKEN) # number_of_entities
                                  THEN "TemplateTokenMismatchWarning"
                                  ELSE "emitted"
                       id_line == IdLine(<<s.id_value, "-", "-1">>, TARGET_LANGUAGE)
                       stop == db_amt + 1 >= max_amt
                   IN
                   /\ template' = tmpl
                   /\ split_template' = split
                   /\ orig_file' = SentenceWrites(orig_file, outcome, id_line,
                                        IF outcome = "emitted"
                                        THEN WalkTemplate(split, -1, cats, orig_tokens)
                                        ELSE <<>>, ~stop)
                   /\ trans_file' = SentenceWrites(trans_file, outcome, id_line,
                                        IF outcome = "emitted"
                                        THEN WalkTemplate(split, -1, cats, trans_tokens)
                                        ELSE <<>>, ~stop)
                   /\ IF outcome = "emitted"
                      THEN /\ db_amt' = db_amt + 1
                           /\ warned' = warned
                           /\ IF stop
                              THEN \* break, line 465
                                   /\ pc' = "close"
                                   /\ sentence_index' = sentence_index
                              ELSE /\ pc' = "loop"
                                   /\ sentence_index' = sentence_index + 1
                      ELSE \* continue, line 436
                           /\ db_amt' = db_amt
                           /\ warned' = Append(warned, [category |-> outcome,
                                                        sentence_index |-> sentence_index])
                           /\ pc' = "loop"
                           /\ sentence_index' = sentence_index + 1

\* the loop is exhausted
LoopEnd ==
    /\ pc = "loop"
    /\ sentence_index >= Len(sentences)
    /\ pc' = "close"
    /\ UNCHANGED <<sentence, sentences, sentences_to_translate, results>>
    /\ UNCHANGED loop_vars

\* lines 469-470
CloseFiles ==
    /\ pc = "close"
    /\ pc' = "done"
    /\ UNCHANGED <<sentence, sentences, sentences_to_translate, results>>
    /\ UNCHANGED loop_vars

Next == LoopIteration \/ LoopEnd \/ CloseFiles

Spec == Init /\ [][Next]_vars

(***************************************************************************)
(* SpecAlign: the reconstruction loop over corpora of up to MaxSentences   *)
(* sentences of no, one or two entities, with results drawn from a string  *)
(* the loop accepts, one it rejects and one without markers, so that       *)
(* accepted and rejected sentences follow each other in every order and    *)
(* the break of line 465 is reached.                                       *)
(***************************************************************************)
AlignStrings ==
    { <<"\"", "a", "\"">>,                              \* "a"
      <<"\"", "a", "\"", "a">>,                         \* "a"a
      <<"a">> }                                         \* a

AlignWordLines == {WordsNoEntity, WordsShortEntity, WordsTwoEntities}

AlignCorpusWordLines == UNION {[1..n -> AlignWordLines] : n \in 1..MaxSentences}

InitAlign ==
    /\ pc = "loop"
    /\ sentence = NewSentence
    /\ sentences \in {Corpus(lines) : lines \in AlignCorpusWordLines}
    /\ sentences_to_translate =
           [i \in 1..Len(sentences) |-> get_bracketed_sentences(sentences[i]).value]
    /\ results \in [1..TotalEntities(sentences) -> AlignStrings]
    /\ LoopVarsInit

SpecAlign == InitAlign /\ [][Next]_vars

(***************************************************************************)
(* SpecIdentity: the whole script. The parser builds the sentences with    *)
(* add_word, line 351 brackets them, results.json holds what a translator  *)
(* that changes nothing returns, and the reconstruction loop runs          *)
(***************************************************************************)
InitIdentity ==
    /\ pc = "parse"
    /\ sentence = NewSentence
    /\ sentences = <<>>
    /\ sentences_to_translate = <<>>
    /\ results = <<>>
    /\ LoopVarsInit

\* the word lines read so far: those of the closed sentences and of the open one
RECURSIVE TotalWords(_)
TotalWords(ss) == IF ss = <<>> THEN 0 ELSE Len(Head(ss).words) + TotalWords(Tail(ss))

ParsedWordCount == TotalWords(sentences) + Len(sentence.words)

\* lines 328-344: a word line
ParseWordLine ==
    /\ pc = "parse"
    /\ ParsedWordCount < MaxWords
    /\ \E word \in ParseWords : sentence' = add_word(sentence, word)
    /\ UNCHANGED <<pc, sentences, sentences_to_translate, results>>
    /\ UNCHANGED loop_vars

\* lines 313-316: a blank line closes the sentence
ParseBlankLine ==
    /\ pc = "parse"
    /\ sentence.words # <<>>
    /\ sentences' = Append(sentences, sentence)
    /\ sentence' = NewSentence
    /\ UNCHANGED <<pc, sentences_to_translate, results>>
    /\ UNCHANGED loop_vars

\* lines 346-351: the end of the input, then every sentence is bracketed
BracketSentences ==
    /\ pc = "parse"
    /\ LET all == IF sentence.words # <<>> THEN Append(sentences, sentence) ELSE sentences
           got == [i \in 1..Len(all) |-> get_bracketed_sentences(all[i])]
       IN  /\ sentences' = all
           /\ IF \E i \in 1..Len(all) : got[i].raised # "None"
              THEN /\ pc' = "ValueError"
                   /\ sentences_to_translate' = sentences_to_translate
              ELSE /\ pc' = "translate"
                   /\ sentences_to_translate' = [i \in 1..Len(all) |-> got[i].value]
    /\ UNCHANGED <<sentence, results>>
    /\ UNCHANGED loop_vars

\* line 358: the lists of bracketed strings flattened, sentence by sentence
RECURSIVE Flatten(_)
Flatten(lists) == IF lists = <<>> THEN <<>> ELSE Head(lists) \o Flatten(Tail(lists))

\* lines 352-369 with a translator that returns every string as it is
LoadResults ==
    /\ pc = "translate"
    /\ results' = Flatten(sentences_to_translate)
    /\ pc' = "loop"
    /\ UNCHANGED <<sentence, sentences, sentences_to_translate>>
    /\ UNCHANGED loop_vars

NextIdentity ==
    \/ ParseWordLine
    \/ ParseBlankLine
    \/ BracketSentences
    \/ LoadResults
    \/ LoopIteration
    \/ LoopEnd
    \/ CloseFiles

SpecIdentity == InitIdentity /\ [][NextIdentity]_vars

(***************************************************************************)
(* What the claims speak of, stated without the program's operators        *)
(***************************************************************************)
Tokens(words) == [i \in 1..Len(words) |-> words[i].token]

\* the 0-based position of the last word of the span that starts at i: the
\* Begin word and the maximal run of Inside words after it
SpanLast(words, i) ==
    CHOOSE j \in i..(Len(words) - 1) :
        /\ \A m \in (i + 1)..j : words[m + 1].tag.tag_type = "I"
        /\ (j + 1 <= Len(words) - 1 => words[j + 2].tag.tag_type # "I")

\* the text of the span that starts at i
SpanText(words, i) == JoinSpace(SubSeq(Tokens(words), i + 1, SpanLast(words, i) + 1))

\* the sentence's text with the span that starts at i between the markers
SpanBracketed(words, i) ==
    JoinSpace(SubSeq(Tokens(words), 1, i)
              \o << <<START_BRACKET>> \o SpanText(words, i) \o <<END_BRACKET>> >>
              \o SubSeq(Tokens(words), SpanLast(words, i) + 2, Len(words)))

TagTypes(words) == [i \in 1..Len(words) |-> words[i].tag.tag_type]

HasMarkerToken(s) ==
    \E i \in 1..Len(s.words) :
        StrCount(s.words[i].token, START_BRACKET) + StrCount(s.words[i].token, END_BRACKET) > 0

\* the sentences built so far: the closed ones and the one the parser holds
BuiltSentences == {sentences[i] : i \in 1..Len(sentences)} \cup {sentence}

\* line 351 returned
Bracketed == pc \in {"translate", "loop", "close", "done", "IndexError", "AssertionError"}

\* the last iteration of the loop ran to its end, for the sentence in sentence
IterationDone == pc \in {"loop", "close", "done"} /\ (sentence_index >= 1 \/ db_amt >= 1)

(***************************************************************************)
(* C7: entity_indexes is exactly the strictly ascending list of the        *)
(* positions of the B-tagged words of every sentence built with add_word,  *)
(* and a word line appends its word at the end of words.                   *)
(***************************************************************************)
C7_IndexesExact(s) ==
    /\ \A k \in 1..Len(s.entity_indexes) :
          /\ s.entity_indexes[k] \in 0..(Len(s.words) - 1)
          /\ s.words[s.entity_indexes[k] + 1].tag.tag_type = "B"
    /\ \A k, l \in 1..Len(s.entity_indexes) : k < l => s.entity_indexes[k] < s.entity_indexes[l]
    /\ \A i \in 0..(Len(s.words) - 1) :
          s.words[i + 1].tag.tag_type = "B" => \E k \in 1..Len(s.entity_indexes) : s.entity_indexes[k] = i

\* C7: entity_indexes is exactly the ascending list of the B positions, and
\* words grows by appending
C7_EntityIndexesExact ==
    /\ [](\A s \in BuiltSentences : C7_IndexesExact(s))
    /\ [][(pc = "parse" /\ Len(sentence'.words) > Len(sentence.words))
            => \E word \in ParseWords : sentence'.words = Append(sentence.words, word)]_vars

C7_Witness ==
    \E s \in BuiltSentences : TagTypes(s.words) = <<"B", "O", "B">> /\ s.entity_indexes = <<0, 2>>

(***************************************************************************)
(* C8: get_entity(k) is the space-joined tokens of the Begin word at       *)
(* entity_indexes[k] and of the maximal run of Inside words after it, and  *)
(* get_entity_category(k) is the category of that Begin word.              *)
(***************************************************************************)
C8_EntityTextAndCategory ==
    (IterationDone /\ ~skip) =>
        /\ Len(original_entity_tokens) = Len(sentence.entity_indexes)
        /\ Len(entity_categories) = Len(sentence.entity_indexes)
        /\ \A k \in 1..Len(sentence.entity_indexes) :
              /\ original_entity_tokens[k] = SpanText(sentence.words, sentence.entity_indexes[k])
              /\ entity_categories[k] = sentence.words[sentence.entity_indexes[k] + 1].tag.tag_category

C8_Witness ==
    /\ IterationDone /\ ~skip
    /\ TagTypes(sentence.words) = <<"B", "I", "B">>
    /\ sentence.words[2].tag.tag_category # sentence.words[1].tag.tag_category
    /\ Len(original_entity_tokens) = 2

(***************************************************************************)
(* C5: get_bracketed_sentences returns one string per entity, in order,    *)
(* each with exactly two markers, one right before the entity's first      *)
(* token and one right after the last token of its span; it raises         *)
(* ValueError, and returns nothing, exactly when such a string would hold  *)
(* another marker.                                                         *)
(***************************************************************************)
C5_BracketedSentences ==
    /\ Bracketed =>
          /\ Len(sentences_to_translate) = Len(sentences)
          /\ \A i \in 1..Len(sentences) :
                /\ Len(sentences_to_translate[i]) = Len(sentences[i].entity_indexes)
                /\ ~(sentences[i].entity_indexes # <<>> /\ HasMarkerToken(sentences[i]))
                /\ \A k \in 1..Len(sentences[i].entity_indexes) :
                      /\ StrCount(sentences_to_translate[i][k], START_BRACKET) = 2
                      /\ sentences_to_translate[i][k]
                             = SpanBracketed(sentences[i].words, sentences[i].entity_indexes[k])
    /\ pc = "ValueError" =>
          /\ sentences_to_translate = <<>>
          /\ \E i \in 1..Len(sentences) :
                sentences[i].entity_indexes # <<>> /\ HasMarkerToken(sentences[i])

C5_Witness ==
    /\ Bracketed
    /\ \E i \in 1..Len(sentences) :
          /\ TagTypes(sentences[i].words) = <<"B", "B", "I">>
          /\ Len(sentences_to_translate[i]) = 2

(***************************************************************************)
(* C6: removing the brackets of any string get_bracketed_sentences         *)
(* returned gives the sentence's tokens joined by single spaces; so the    *)
(* loop, fed the bracketed strings themselves, finds that text as the      *)
(* canonical one and no mismatch.                                          *)
(***************************************************************************)
C6_RoundTrip ==
    /\ Bracketed =>
          \A i \in 1..Len(sentences) : \A k \in 1..Len(sentences_to_translate[i]) :
              remove_brackets(sentences_to_translate[i][k]) = JoinSpace(Tokens(sentences[i].words))
    /\ IterationDone =>
          /\ ~skip
          /\ main_unbracketed_translation = JoinSpace(Tokens(sentence.words))

C6_Witness ==
    /\ IterationDone
    /\ TagTypes(sentence.words) = <<"O", "B", "B">>
    /\ main_unbracketed_translation = JoinSpace(Tokens(sentence.words))

(***************************************************************************)
(* The reconstruction loop's claims, checked under Spec                    *)
(***************************************************************************)
Faults == {"AssertionError", "IndexError", "ValueError"}

\* the loop took up the sentence in sentence, with the strings in translations
TakenUp == translations # <<>>

WellFormed(t) == StrCount(t, START_BRACKET) = 2

LastWarning == warned[Len(warned)]

\* the position of the sentence the last finished iteration handled
LastIndex == IF pc = "close" /\ db_amt >= max_amt THEN sentence_index ELSE sentence_index - 1

(***************************************************************************)
(* C1: a sentence with N >= 1 entities one of whose translations, the      *)
(* first included, fails the bracket-pair check is rejected with a         *)
(* BracketsNotFoundWarning, the run goes on and nothing is written for it. *)
(***************************************************************************)
C1_AnyBadTranslationIsWarned ==
    (TakenUp /\ \E k \in 1..Len(translations) : ~WellFormed(translations[k])) =>
        /\ pc \notin Faults
        /\ warned # <<>>
        /\ LastWarning.category = "BracketsNotFoundWarning"
        /\ LastWarning.sentence_index = LastIndex

(***************************************************************************)
(* C2: whatever the translated strings hold, the loop never stops with an  *)
(* assertion or index fault, and at its end every sentence was either      *)
(* emitted or skipped with a warning.                                      *)
(***************************************************************************)
C2_NoTranslationFaultAborts ==
    /\ pc \notin Faults
    /\ pc = "done" => db_amt + Len(warned) = Len(sentences)

(***************************************************************************)
(* C3: when every translation of the sentence holds a well-formed bracket  *)
(* pair, the sentence passes the consistency check iff every translation,  *)
(* its brackets removed, equals the first one with its brackets removed;   *)
(* otherwise it is rejected with a TranslationMismatchWarning.             *)
(***************************************************************************)
C3_AcceptsIffAllEqual ==
    (TakenUp /\ \A k \in 1..Len(translations) : WellFormed(translations[k])) =>
        /\ skip <=> (\E k \in 1..Len(translations) :
                        remove_brackets(translations[k]) # remove_brackets(translations[1]))
        /\ skip => /\ pc \notin Faults
                   /\ warned # <<>>
                   /\ LastWarning.category = "TranslationMismatchWarning"
                   /\ LastWarning.sentence_index = LastIndex

C3_Witness ==
    /\ TakenUp
    /\ Len(translations) = 2
    /\ \A k \in 1..2 : WellFormed(translations[k])
    /\ skip
    /\ Len(remove_brackets(translations[2])) = Len(remove_brackets(translations[1]))

(***************************************************************************)
(* C4: an iteration that rejects its sentence, or that a fault stops,      *)
(* leaves both files as they were; an iteration that writes appends to     *)
(* each file the id line, then every word of the sentence: the template's  *)
(* tokens with each placeholder replaced by the tokens of its entity.      *)
(***************************************************************************)
RECURSIVE ExpandTemplate(_, _)
ExpandTemplate(split, entity_tokens) ==
    IF split = <<>> THEN <<>>
    ELSE IF Head(split) = TEMPLATE_TOKEN
    THEN StrSplit(Head(entity_tokens)) \o ExpandTemplate(Tail(split), Tail(entity_tokens))
    ELSE <<Head(split)>> \o ExpandTemplate(Tail(split), entity_tokens)

\* what a step appended to a file
Written(old, new) == SubSeq(new, Len(old) + 1, Len(new))

\* the lines of a block but the id line and the closing blank lines
BlockWords(block) ==
    LET last == IF block[Len(block)].kind = "blank" THEN Len(block) - 1 ELSE Len(block)
    IN  SubSeq(block, 2, last)

C4_CompleteBlock(block, id_value, split, entity_tokens) ==
    /\ block # <<>>
    /\ block[1].kind = "id"
    /\ block[1].example_id[1] = id_value
    /\ \A i \in 1..Len(BlockWords(block)) : BlockWords(block)[i].kind = "word"
    /\ [i \in 1..Len(BlockWords(block)) |-> BlockWords(block)[i].token]
           = ExpandTemplate(split, entity_tokens)

C4_Step ==
    /\ (Len(warned') > Len(warned) \/ pc' \in Faults) =>
           (orig_file' = orig_file /\ trans_file' = trans_file)
    /\ (orig_file' # orig_file \/ trans_file' # trans_file) =>
           /\ db_amt' = db_amt + 1
           /\ SubSeq(orig_file', 1, Len(orig_file)) = orig_file
           /\ SubSeq(trans_file', 1, Len(trans_file)) = trans_file
           /\ C4_CompleteBlock(Written(orig_file, orig_file'), sentence'.id_value,
                               split_template', original_entity_tokens')
           /\ C4_CompleteBlock(Written(trans_file, trans_file'), sentence'.id_value,
                               split_template', translated_entity_tokens')

\* C4: a rejected or faulted iteration writes nothing, a writing one writes the
\* id line and the complete word sequence to both files
C4_NoPartialOutput == [][C4_Step]_vars

C4_Witness ==
    /\ db_amt = 1
    /\ warned # <<>>
    /\ LastWarning.category = "TemplateTokenMismatchWarning"
    /\ LastWarning.sentence_index = 1
    /\ Len(orig_file) > 2
    /\ orig_file[Len(orig_file)].kind = "blank"

(***************************************************************************)
(* C9: the template. Entity k's own occurrence in the canonical text is    *)
(* the text between the markers of translation k, at the place of the      *)
(* start marker.                                                           *)
(***************************************************************************)
\* the 0-based positions of the two markers of a well-formed string
FirstMarker(t) == (CHOOSE i \in 1..Len(t) : t[i] = START_BRACKET /\ \A j \in 1..(i - 1) : t[j] # START_BRACKET) - 1

LastMarker(t) == (CHOOSE i \in 1..Len(t) : t[i] = END_BRACKET /\ \A j \in (i + 1)..Len(t) : t[j] # END_BRACKET) - 1

OwnStart(t) == FirstMarker(t)

OwnLen(t) == LastMarker(t) - FirstMarker(t) - 1

OwnText(t) == SubSeq(t, FirstMarker(t) + 2, LastMarker(t))

\* how far the first k replacements move what stands right of them
RECURSIVE Shift(_, _)
Shift(trs, k) == IF k = 0 THEN 0 ELSE Shift(trs, k - 1) + Len(TEMPLATE_TOKEN) - OwnLen(trs[k])

\* the canonical text with the own occurrences of the first k entities
\* replaced by the placeholder
RECURSIVE IdealTemplate(_, _, _)
IdealTemplate(canonical, trs, k) ==
    IF k = 0 THEN canonical
    ELSE LET prev == IdealTemplate(canonical, trs, k - 1)
             p == OwnStart(trs[k]) + Shift(trs, k - 1)
         IN  SubSeq(prev, 1, p) \o TEMPLATE_TOKEN \o SubSeq(prev, p + OwnLen(trs[k]) + 1, Len(prev))

\* the own occurrences follow one another, in the entities' order, without overlap
OwnInOrder(trs) ==
    \A k \in 1..(Len(trs) - 1) : OwnStart(trs[k]) + OwnLen(trs[k]) <= OwnStart(trs[k + 1])

\* the own occurrence is a run of whole tokens of the canonical text: not
\* empty, no whitespace at its ends, whitespace or an end of the text on both sides
OwnDelimited(canonical, t) ==
    /\ OwnLen(t) > 0
    /\ ~IsSpace(OwnText(t)[1])
    /\ ~IsSpace(OwnText(t)[OwnLen(t)])
    /\ OwnStart(t) = 0 \/ IsSpace(canonical[OwnStart(t)])
    /\ OwnStart(t) + OwnLen(t) = Len(canonical) \/ IsSpace(canonical[OwnStart(t) + OwnLen(t) + 1])

\* in the template built so far no occurrence of entity k's text starts left
\* of its own occurrence
OwnIsLeftmost(canonical, trs, k) ==
    \A q \in 0..(OwnStart(trs[k]) + Shift(trs, k - 1) - 1) :
        ~OccursAt(IdealTemplate(canonical, trs, k - 1), OwnText(trs[k]), q)

\* the last iteration built the template of the sentence in sentence
TemplateBuilt == IterationDone /\ TakenUp /\ ~skip

C9_Conclusion ==
    /\ ListCount(split_template, TEMPLATE_TOKEN) = Len(translations)
    /\ template = IdealTemplate(main_unbracketed_translation, translations, Len(translations))

\* C9 as claimed: own occurrences in order and without overlap are enough
\* for N placeholder tokens, each at the place of its own entity's occurrence
C9_AsClaimed ==
    (TemplateBuilt /\ OwnInOrder(translations)) => C9_Conclusion

\* C9 as amended: if moreover every own occurrence is a run of whole tokens
\* of the canonical text and, when entity k is replaced, no occurrence of its
\* text starts left of its own one in the template built so far, the split
\* template holds exactly N placeholder tokens, each at the place of its own
\* entity's occurrence; equal texts use separate occurrences.
C9_TemplateUnderLeftmostOwn ==
    (/\ TemplateBuilt
     /\ OwnInOrder(translations)
     /\ \A k \in 1..Len(translations) :
           /\ OwnDelimited(main_unbracketed_translation, translations[k])
           /\ OwnIsLeftmost(main_unbracketed_translation, translations, k))
    => C9_Conclusion

C9_Witness ==
    /\ TemplateBuilt
    /\ Len(translations) = 2
    /\ OwnInOrder(translations)
    /\ \A k \in 1..2 :
           /\ OwnDelimited(main_unbracketed_translation, translations[k])
           /\ OwnIsLeftmost(main_unbracketed_translation, translations, k)
    /\ OwnText(translations[1]) = OwnText(translations[2])
    /\ split_template = <<TEMPLATE_TOKEN, TEMPLATE_TOKEN>>

(***************************************************************************)
(* C10: the walk over the split template. For the k-th placeholder the     *)
(* entity's sub-tokens go out B- then I-tagged with entity k's category,   *)
(* the source's to orig_file and the translated ones to trans_file; every  *)
(* other token goes out O-tagged to both. Hence both blocks hold the same  *)
(* O tokens and the source sentence's entity categories in order, and an   *)
(* I-tagged word only follows a B- or I-tagged word of its category.       *)
(***************************************************************************)
\* the categories of the sentence's B-tagged words, in order
RECURSIVE SourceCategories(_)
SourceCategories(words) ==
    IF words = <<>> THEN <<>>
    ELSE (IF Head(words).tag.tag_type = "B" THEN <<Head(words).tag.tag_category>> ELSE <<>>)
             \o SourceCategories(Tail(words))

\* the text of each entity of the sentence, in order
RECURSIVE SourceTexts(_, _)
SourceTexts(words, i) ==
    IF i >= Len(words) THEN <<>>
    ELSE (IF words[i + 1].tag.tag_type = "B" THEN <<SpanText(words, i)>> ELSE <<>>)
             \o SourceTexts(words, i + 1)

IsB(line) == line.tag_format[1] = "B"
IsO(line) == line.tag_format[1] = "O"

BlockCategories(block) ==
    LET bs == SelectSeq(block, IsB) IN [i \in 1..Len(bs) |-> bs[i].tag_format[3]]

BlockOTokens(block) ==
    LET os == SelectSeq(block, IsO) IN [i \in 1..Len(os) |-> os[i].token]

\* the lines the claim expects of the walk
RECURSIVE ExpectedLines(_, _, _)
ExpectedLines(split, categories, texts) ==
    IF split = <<>> THEN <<>>
    ELSE IF Head(split) = TEMPLATE_TOKEN
    THEN LET toks == StrSplit(Head(texts))
         IN  [i \in 1..Len(toks) |->
                 [kind |-> "word", token |-> toks[i],
                  tag_format |-> <<IF i = 1 THEN "B" ELSE "I", "-", Head(categories)>>]]
             \o ExpectedLines(Tail(split), Tail(categories), Tail(texts))
    ELSE <<[kind |-> "word", token |-> Head(split), tag_format |-> <<"O">>]>>
             \o ExpectedLines(Tail(split), categories, texts)

InsideFollowsEntity(block) ==
    \A i \in 1..Len(block) :
        block[i].tag_format[1] = "I" =>
            /\ i > 1
            /\ block[i - 1].tag_format[1] \in {"B", "I"}
            /\ block[i - 1].tag_format[3] = block[i].tag_format[3]

\* the per-token part of the claim
C10_WalkStep ==
    db_amt' = db_amt + 1 =>
        LET cats == SourceCategories(sentence'.words)
            o == BlockWords(Written(orig_file, orig_file'))
            t == BlockWords(Written(trans_file, trans_file'))
        IN  /\ o = ExpectedLines(split_template', cats, SourceTexts(sentence'.words, 0))
            /\ t = ExpectedLines(split_template', cats,
                                 [k \in 1..Len(translations') |-> OwnText(translations'[k])])
            /\ BlockOTokens(o) = BlockOTokens(t)
            /\ InsideFollowsEntity(o)
            /\ InsideFollowsEntity(t)

\* the part the claim draws from it
C10_CategoriesStep ==
    db_amt' = db_amt + 1 =>
        LET cats == SourceCategories(sentence'.words)
        IN  /\ BlockCategories(BlockWords(Written(orig_file, orig_file'))) = cats
            /\ BlockCategories(BlockWords(Written(trans_file, trans_file'))) = cats

\* the per-token part alone
C10_WalkPart == [][C10_WalkStep]_vars

\* C10: the walk writes the entities and the context as claimed, and both
\* blocks carry the source sentence's entity categories in order
C10_WalkWritesEntitiesAndContext == [][C10_WalkStep /\ C10_CategoriesStep]_vars


(***************************************************************************)
(* C11: sentences are handled in input order; the translations used for    *)
(* the sentence at position s are the results at offsets                   *)
(* [sum of the entity counts of sentences 0..s-1, that sum + N_s), whether *)
(* the earlier sentences were accepted or rejected; and the accepted       *)
(* sentences appear in both output files in the input's order.             *)
(* Checked under SpecAlign.                                                *)
(***************************************************************************)
\* the number of entities of a sentence, counted on its tags
EntityCount(s) == Len(SourceCategories(s.words))

\* the entities of the sentences at positions 0..s-1
RECURSIVE EntitiesBefore(_)
EntitiesBefore(s) ==
    IF s = 0 THEN 0 ELSE EntitiesBefore(s - 1) + EntityCount(sentences[s])

\* the results at offsets [from, from + n)
ResultsAt(from, n) == [k \in 1..n |-> results[from + k]]

\* the sentence ids of a file's id lines, in the file's order
RECURSIVE FileIds(_)
FileIds(file) ==
    IF file = <<>> THEN <<>>
    ELSE (IF Head(file).kind = "id" THEN <<Head(file).example_id[1]>> ELSE <<>>)
             \o FileIds(Tail(file))

\* the 0-based input position of the sentence with this id
InputPosition(id_value) == CHOOSE i \in 0..(Len(sentences) - 1) : sentences[i + 1].id_value = id_value

InInputOrder(ids) ==
    /\ \A i \in 1..Len(ids) : \E j \in 1..Len(sentences) : sentences[j].id_value = ids[i]
    /\ \A i, j \in 1..Len(ids) : i < j => InputPosition(ids[i]) < InputPosition(ids[j])

\* an iteration takes up the sentence at the next position with the results
\* at its offsets, and goes on to the following position or stops
C11_TakesUpInOrder ==
    (pc = "loop" /\ sentence_index < Len(sentences)) =>
        /\ sentence' = sentences[sentence_index + 1]
        /\ translations' = ResultsAt(EntitiesBefore(sentence_index), EntityCount(sentence'))
        /\ \/ pc' = "loop" /\ sentence_index' = sentence_index + 1
           \/ pc' # "loop" /\ sentence_index' = sentence_index

\* an accepted sentence's id line goes to the end of both files, and nothing
\* else adds or moves an id line
C11_AppendsAccepted ==
    IF db_amt' = db_amt + 1
    THEN /\ FileIds(orig_file') = Append(FileIds(orig_file), sentence'.id_value)
         /\ FileIds(trans_file') = Append(FileIds(trans_file), sentence'.id_value)
    ELSE /\ db_amt' = db_amt
         /\ FileIds(orig_file') = FileIds(orig_file)
         /\ FileIds(trans_file') = FileIds(trans_file)

C11_FilesInInputOrder ==
    /\ FileIds(orig_file) = FileIds(trans_file)
    /\ Len(FileIds(orig_file)) = db_amt
    /\ InInputOrder(FileIds(orig_file))

\* C11: every iteration takes up the next sentence with the results at its
\* own offsets, and the accepted sentences are in both files in input order
C11_ResultsAlignedInOrder ==
    []C11_FilesInInputOrder /\ [][C11_TakesUpInOrder /\ C11_AppendsAccepted]_vars

\* the sentence at position 2 was accepted with the result at offset 3, after
\* the one-entity sentence at position 0 was accepted and the two-entity
\* sentence at position 1 was rejected
C11_Witness ==
    /\ pc = "loop"
    /\ sentence_index = 3
    /\ db_amt = 2
    /\ Len(warned) = 1
    /\ warned[1].sentence_index = 1
    /\ EntityCount(sentences[1]) = 1
    /\ EntityCount(sentences[2]) = 2
    /\ translations = <<results[4]>>
    /\ results[1] # results[2]
    /\ FileIds(orig_file) = <<"id0", "id2">>
    /\ FileIds(trans_file) = <<"id0", "id2">>


=============================================================================
